---- MODULE Spec2Model ----
(***************************************************************************)
(* Model of the construction-tracing container (src/CTAD.cpp) and of the   *)
(* type-introspection helpers (src/typeChecks.cpp).                        *)
(*                                                                         *)
(* A type is a sequence of names, outermost template first:                *)
(*   <<"double">>, <<"TypedClass","double">>, <<"Id","float">>.            *)
(* A value is [ty |-> type, num |-> n].  For an integral type num is the   *)
(* integer; for a floating type num counts units of 1/Scale (1.3 is 13).   *)
(* A TypedClass<T> object is [ty |-> <<"TypedClass">> \o T, num |-> val].  *)
(* std::cout is the sequence out of printed lines [kind, name, payload].   *)
(***************************************************************************)
EXTENDS Integers, Sequences, FiniteSets, TLC

VARIABLES
  pc,      \* position in the current statement of main: "idle", "args"
           \* (building TypedClass temporaries), "fill" (std::vector
           \* creating its elements), "body" (constructor body), "done",
           \* or "crashed"
  stmt,    \* the statement being executed, with the element type and the
           \* constructor the compiler chose for it
  tmp,     \* the TypedClass temporaries built for the statement
  arr,     \* DynamicArray::arr
  out,     \* the lines written to std::cout so far
  cout,    \* the state of std::cout: "good", or "bad" once badbit is set
  heapOk,  \* whether malloc inside abi::__cxa_demangle always succeeds
  stmts,   \* the number of statements started
  mark,    \* Len(out) when the current statement started
  ids      \* the types Id<T> of which main has constructed an object

vars == <<pc, stmt, tmp, arr, out, cout, heapOk, stmts, mark, ids>>

(* ------------------------------ bounds --------------------------------- *)
MaxCount == 3
MaxLen == 3
MaxStmts == 1

(* --------------------------- types and values -------------------------- *)
Scale == 10

Int_ == <<"int">>
Double_ == <<"double">>
Float_ == <<"float">>
ULong_ == <<"unsigned long">>
CharArr_ == <<"char [6]">>

IntegralTypes == {Int_, ULong_}
FloatingTypes == {Double_, Float_}
ArithTypes == IntegralTypes \cup FloatingTypes

IsArith(T) == T \in ArithTypes
IsIntegral(T) == T \in IntegralTypes
IsFloating(T) == T \in FloatingTypes

Wrap(T) == <<"TypedClass">> \o T
IsCell(T) == Len(T) >= 2 /\ T[1] = "TypedClass"
Inner(T) == Tail(T)

Val(T, n) == [ty |-> T, num |-> n]

\* Mutant of ValueInitT: the element is default-initialised, not zeroed.
ValueInitGarbage(T) == Val(T, 7)

\* T{} for an arithmetic T: value-initialisation gives zero.
ValueInitT(T) == Val(T, 0)

\* T getData() const { return val; }
getData(c) == Val(Inner(c.ty), c.num)

\* Standard arithmetic conversion of v to the arithmetic type T (every
\* value used here is non-negative and fits the target).
Convert(v, T) ==
  IF v.ty = T THEN v
  ELSE IF IsIntegral(v.ty) /\ IsFloating(T) THEN Val(T, v.num * Scale)
  ELSE IF IsFloating(v.ty) /\ IsIntegral(T) THEN Val(T, v.num \div Scale)
  ELSE Val(T, v.num)

\* A conversion a braced list rejects (floating to integral always narrows;
\* the literals used here fit every other target exactly).
Narrows(v, T) == IsArith(v.ty) /\ IsFloating(v.ty) /\ IsIntegral(T)

(* ------------------------ type names (typeid, abi) --------------------- *)
\* typeid(T).name(): the Itanium mangling, as a token sequence.
BuiltinCode(b) ==
  CASE b = "int" -> "i"
    [] b = "double" -> "d"
    [] b = "float" -> "f"
    [] b = "unsigned long" -> "m"
    [] b = "char [6]" -> "A6_c"

SourceName(t) ==
  CASE t = "TypedClass" -> "10TypedClass"
    [] t = "Id" -> "2Id"

RECURSIVE Mangle(_)
Mangle(T) ==
  IF Len(T) = 1 THEN <<BuiltinCode(T[1])>>
  ELSE <<SourceName(T[1]), "I">> \o Mangle(Tail(T)) \o <<"E">>

BuiltinName(c) ==
  CASE c = "i" -> "int"
    [] c = "d" -> "double"
    [] c = "f" -> "float"
    [] c = "m" -> "unsigned long"
    [] c = "A6_c" -> "char [6]"

Identifier(s) ==
  CASE s = "10TypedClass" -> "TypedClass"
    [] s = "2Id" -> "Id"

RECURSIVE DemangleTokens(_)
DemangleTokens(m) ==
  IF Len(m) = 1 THEN <<BuiltinName(m[1])>>
  ELSE <<Identifier(m[1]), "<">> \o DemangleTokens(SubSeq(m, 3, Len(m) - 1))
         \o <<">">>

NULL == <<>>

\* abi::__cxa_demangle(name, 0, 0, &status): a malloc'ed readable name and
\* status 0, or a null pointer and status -1 when the allocation fails.
cxa_demangle(m, mallocOk) ==
  IF mallocOk THEN [ptr |-> DemangleTokens(m), status |-> 0]
  ELSE [ptr |-> NULL, status |-> 0 - 1]

\* The outcomes malloc can have inside the demangler.
MallocOutcomes == IF heapOk THEN {TRUE} ELSE BOOLEAN

\* Streaming a null char* is undefined: the stream sets badbit, or the
\* process dies in strlen.
NullStreamOutcomes == {"badbit", "crash"}

(* ------------------------------- output -------------------------------- *)
NoPayload == <<>>

Line(k, n, p) == [kind |-> k, name |-> n, payload |-> p]

\* operator<< on std::cout: a stream with badbit set discards the output.
Write(o, c, l) == IF c = "good" THEN Append(o, l) ELSE o

\* std::cout << prefix << demangled << suffix << std::endl, where demangled
\* is the pointer d.ptr, streamed unchecked.
StreamNamed(k, d, p, ub) ==
  IF d.ptr = NULL
  THEN [out |-> Write(out, cout, Line(k, NULL, NoPayload)),
        cout |-> IF ub = "badbit" THEN "bad" ELSE cout,
        crashed |-> ub = "crash"]
  ELSE [out |-> Write(out, cout, Line(k, d.ptr, p)),
        cout |-> cout,
        crashed |-> FALSE]

(* ------------------ class template argument deduction ------------------ *)
IllFormed == <<>>

SameType(args) == \A i \in 1..Len(args) : args[i].ty = args[1].ty

\* Implicit guide of DynamicArray(std::initializer_list<T>): T is deduced
\* only when every element of the braced list has the same type.
GuideInitList(args) ==
  IF Len(args) >= 1 /\ SameType(args) THEN args[1].ty ELSE IllFormed

\* Implicit guide of DynamicArray(size_t, const T&): DynamicArray<T>.
GuideFill(args) ==
  IF Len(args) = 2 /\ IsArith(args[1].ty) THEN args[2].ty ELSE IllFormed

\* template <typename T> DynamicArray(size_t, T) -> DynamicArray<TypedClass<T>>
GuideSizeValue(args) ==
  IF Len(args) = 2 /\ IsArith(args[1].ty) THEN Wrap(args[2].ty) ELSE IllFormed

\* Mutant of Deduce: the implicit guide of (size_t, const T&) wins the tie.
DeduceImplicitFirst(form, args) ==
  IF form = "braced" /\ GuideInitList(args) # IllFormed
  THEN GuideInitList(args)
  ELSE IF form \in {"braced", "paren"} THEN GuideFill(args)
  ELSE IllFormed

\* The element type E of DynamicArray<E> deduced for `DynamicArray x{args}`
\* (braced) or `DynamicArray x(args)` (paren).  A braced list first tries the
\* initializer-list guide alone; otherwise the two-argument guides compete
\* and the user-written guide beats the implicit one on the tie.
Deduce(form, args) ==
  IF form = "braced" /\ GuideInitList(args) # IllFormed
  THEN GuideInitList(args)
  ELSE IF form \in {"braced", "paren"} /\ GuideSizeValue(args) # IllFormed
  THEN GuideSizeValue(args)
  ELSE IF form \in {"braced", "paren"} THEN GuideFill(args)
  ELSE IllFormed

\* Implicit convertibility of an argument to the element type E, through
\* the converting constructor TypedClass(const T&) when E is TypedClass<T>.
ConvertibleTo(v, E) ==
  \/ v.ty = E
  \/ IsArith(v.ty) /\ IsArith(E)
  \/ IsArith(v.ty) /\ IsCell(E) /\ IsArith(Inner(E))

\* Mutant of SelectCtor: a two-argument braced list whose first element is a
\* number goes to the (size_t, const T&) constructor.
SelectCtorFillFirst(form, E, args) ==
  IF form = "default" THEN "Empty"
  ELSE IF form = "count" THEN "Sized"
  ELSE IF Len(args) = 2 /\ IsArith(args[1].ty) /\ IsCell(E) THEN "Fill"
  ELSE IF form = "braced" THEN "InitList"
  ELSE "Fill"

\* Overload resolution among the four constructors of DynamicArray<E>.
SelectCtor(form, E, args) ==
  IF form = "default" THEN "Empty"
  ELSE IF form = "count" THEN "Sized"
  ELSE IF form = "braced" /\ \A i \in 1..Len(args) : ConvertibleTo(args[i], E)
  THEN "InitList"
  ELSE "Fill"

\* The scalar type held by elements of type E.
ScalarOf(E) == IF IsCell(E) THEN Inner(E) ELSE E

\* Calls that compile: the element type is deduced, TypedClass<T> prints a
\* T (so T is arithmetic), and a braced list needs no narrowing conversion.
WellFormed(form, args) ==
  LET E == Deduce(form, args) IN
    /\ E # IllFormed
    /\ IsArith(ScalarOf(E))
    /\ form = "braced" =>
         \A i \in 1..Len(args) :
           IsArith(args[i].ty) => ~Narrows(args[i], ScalarOf(E))

(* ----------------------- one construction statement -------------------- *)
\* The values handed to TypedClass(const T&) before the DynamicArray
\* constructor body runs: the elements of the initializer_list backing
\* array, or the temporary bound to `const T &val`.
Pending(s) ==
  IF ~IsCell(s.elem) THEN <<>>
  ELSE IF s.strategy = "InitList"
  THEN [i \in 1..Len(s.args) |->
          IF IsCell(s.args[i].ty) THEN getData(s.args[i])
          ELSE Convert(s.args[i], Inner(s.elem))]
  ELSE IF s.strategy = "Fill" THEN <<Convert(s.args[2], Inner(s.elem))>>
  ELSE <<>>

\* Mutant of Target: the fill constructor creates one element too many.
TargetPlusOne(s) ==
  IF s.strategy = "InitList" THEN Len(s.args)
  ELSE IF s.strategy = "Fill" THEN Convert(s.args[1], ULong_).num + 1
  ELSE IF s.strategy = "Sized" THEN Convert(s.args[1], ULong_).num
  ELSE 0

\* The number of elements std::vector creates: arr(init), arr(sz, val),
\* arr(sz, T{}) or arr().
Target(s) ==
  IF s.strategy = "InitList" THEN Len(s.args)
  ELSE IF s.strategy \in {"Fill", "Sized"} THEN Convert(s.args[1], ULong_).num
  ELSE 0

\* Mutant of Source: the list is copied back to front.
SourceReversed(s, t, i) ==
  IF s.strategy = "InitList"
  THEN IF IsCell(s.elem) THEN t[Len(t) + 1 - i]
       ELSE Convert(s.args[Len(s.args) + 1 - i], s.elem)
  ELSE IF s.strategy = "Fill"
  THEN IF IsCell(s.elem) THEN t[1] ELSE Convert(s.args[2], s.elem)
  ELSE ValueInitT(s.elem)

\* Mutant of Source: every slot is copied from the first list element.
SourceFirst(s, t, i) ==
  IF s.strategy = "InitList"
  THEN IF IsCell(s.elem) THEN t[1] ELSE Convert(s.args[1], s.elem)
  ELSE IF s.strategy = "Fill"
  THEN IF IsCell(s.elem) THEN t[1] ELSE Convert(s.args[2], s.elem)
  ELSE ValueInitT(s.elem)

\* The object std::vector copies into slot i.
Source(s, t, i) ==
  IF s.strategy = "InitList"
  THEN IF IsCell(s.elem) THEN t[i] ELSE Convert(s.args[i], s.elem)
  ELSE IF s.strategy = "Fill"
  THEN IF IsCell(s.elem) THEN t[1] ELSE Convert(s.args[2], s.elem)
  ELSE ValueInitT(s.elem)

\* Mutant of AfterFill: the vector stops one element short.
AfterFillEarly(s, n) ==
  IF n < Target(s) - 1 THEN "fill"
  ELSE IF s.strategy = "InitList" THEN "body" ELSE "done"

\* Where control goes once the vector holds n elements.
AfterFill(s, n) ==
  IF n < Target(s) THEN "fill"
  ELSE IF s.strategy = "InitList" THEN "body" ELSE "done"

(* ------------------------------- inputs -------------------------------- *)
IntNums == {0, 10}
DoubleNums == {13, 100}
FloatNums == {15}

\* What an uninitialised `T val;` may hold.
IndeterminateNums == {0, 7}

ScalarLits ==
  {Val(Int_, n) : n \in IntNums} \cup {Val(Double_, n) : n \in DoubleNums}
    \cup {Val(Float_, n) : n \in FloatNums}

\* The prvalue expressions TypedClass{v}.
CellExprs == {Val(Wrap(v.ty), v.num) : v \in ScalarLits}

Exprs == ScalarLits \cup CellExprs

PlainTypes == {Int_, Double_, Float_}

BracedArgs ==
  {a \in UNION {[1..k -> Exprs] : k \in 1..MaxLen} : WellFormed("braced", a)}

ParenArgs ==
  {<<Val(Int_, n), v>> : n \in 0..MaxCount, v \in ScalarLits}

CountArgs == {<<Val(Int_, n)>> : n \in 0..MaxCount}

\* The instantiations of Id main declares an object of.
IdTypes == {<<"Id", "float">>, <<"Id", "double">>}

\* The types the introspection helpers are called with: literals, and the
\* Id objects main has constructed.
ProbeTypes == {Int_, Double_, Float_, ULong_, CharArr_} \cup IdTypes

\* A value of type T is at hand: a literal, or an Id object already built.
Available(T) == T \in IdTypes => T \in ids

Deduced == <<>>

Statement(f, T, a, E, st) ==
  [form |-> f, T |-> T, args |-> a, elem |-> E, strategy |-> st]

\* `DynamicArray x{a...}` / `DynamicArray x(n, v)` with the element type
\* deduced, or `DynamicArray<T> x;` / `DynamicArray<T> x(n)` with T written.
Containers ==
  {Statement("braced", Deduced, a, Deduce("braced", a),
             SelectCtor("braced", Deduce("braced", a), a)) : a \in BracedArgs}
    \cup
  {Statement("paren", Deduced, a, Deduce("paren", a),
             SelectCtor("paren", Deduce("paren", a), a)) : a \in ParenArgs}
    \cup
  {Statement("count", T, a, T, SelectCtor("count", T, a)) :
     T \in PlainTypes, a \in CountArgs}
    \cup
  {Statement("default", T, <<>>, T, SelectCtor("default", T, <<>>)) :
     T \in PlainTypes}

(* ------------------------------- actions ------------------------------- *)
Init ==
  /\ pc = "idle"
  /\ stmt = Statement("none", Deduced, <<>>, Deduced, "none")
  /\ tmp = <<>>
  /\ arr = <<>>
  /\ out = <<>>
  /\ cout = "good"
  /\ heapOk = TRUE
  /\ stmts = 0
  /\ mark = 0
  /\ ids = {}

\* The same program started where the heap may be exhausted.
InitLowMem ==
  /\ pc = "idle"
  /\ stmt = Statement("none", Deduced, <<>>, Deduced, "none")
  /\ tmp = <<>>
  /\ arr = <<>>
  /\ out = <<>>
  /\ cout = "good"
  /\ heapOk \in BOOLEAN
  /\ stmts = 0
  /\ mark = 0
  /\ ids = {}

\* A declaration of a DynamicArray is reached: its element type and its
\* constructor are fixed at compile time.
Declare ==
  /\ pc = "idle"
  /\ stmts < MaxStmts
  /\ \E s \in Containers :
       /\ stmt' = s
       /\ pc' = IF Pending(s) # <<>> THEN "args" ELSE "fill"
  /\ tmp' = <<>>
  /\ arr' = <<>>
  /\ mark' = Len(out)
  /\ stmts' = stmts + 1
  /\ UNCHANGED <<out, cout, heapOk, ids>>

\* TypedClass(const T &x) : val(x), run for the next pending temporary.
TypedClassValueCtor ==
  /\ pc = "args"
  /\ Len(tmp) < Len(Pending(stmt))
  /\ \E ok \in MallocOutcomes, ub \in NullStreamOutcomes :
       LET x == Pending(stmt)[Len(tmp) + 1]
           r == StreamNamed("ValueInit", cxa_demangle(Mangle(x.ty), ok),
                            NoPayload, ub)
           t == Append(tmp, Val(Wrap(x.ty), x.num))
       IN /\ tmp' = t
          /\ out' = r.out
          /\ cout' = r.cout
          /\ pc' = IF r.crashed THEN "crashed"
                   ELSE IF Len(t) < Len(Pending(stmt)) THEN "args"
                   ELSE AfterFill(stmt, 0)
  /\ UNCHANGED <<stmt, arr, heapOk, stmts, mark, ids>>

\* TypedClass(const TypedClass &obj) : val(obj.val), run by std::vector for
\* its next slot.
TypedClassCopyCtor ==
  /\ pc = "fill"
  /\ IsCell(stmt.elem)
  /\ Len(arr) < Target(stmt)
  /\ \E ok \in MallocOutcomes, ub \in NullStreamOutcomes :
       LET obj == Source(stmt, tmp, Len(arr) + 1)
           r == StreamNamed("Copy", cxa_demangle(Mangle(Inner(obj.ty)), ok),
                            <<obj.num>>, ub)
           a == Append(arr, Val(obj.ty, obj.num))
       IN /\ arr' = a
          /\ out' = r.out
          /\ cout' = r.cout
          /\ pc' = IF r.crashed THEN "crashed" ELSE AfterFill(stmt, Len(a))
  /\ UNCHANGED <<stmt, tmp, heapOk, stmts, mark, ids>>

\* std::vector filling itself with elements of a plain type: arr(),
\* arr(sz, T{}) or arr(init).
VectorFillPlain ==
  /\ pc = "fill"
  /\ ~IsCell(stmt.elem)
  /\ arr' = [i \in 1..Target(stmt) |-> Source(stmt, tmp, i)]
  /\ pc' = AfterFill(stmt, Target(stmt))
  /\ UNCHANGED <<stmt, tmp, out, cout, heapOk, stmts, mark, ids>>

\* The body of DynamicArray(std::initializer_list<T> init).
DynamicArrayInitList ==
  /\ pc = "body"
  /\ \E ok \in MallocOutcomes, ub \in NullStreamOutcomes :
       LET r == StreamNamed("InitList", cxa_demangle(Mangle(stmt.elem), ok),
                            NoPayload, ub)
       IN /\ out' = r.out
          /\ cout' = r.cout
          /\ pc' = IF r.crashed THEN "crashed" ELSE "done"
  /\ UNCHANGED <<stmt, tmp, arr, heapOk, stmts, mark, ids>>

\* TypedClass() {} for a declaration `TypedClass<T> c;`: val is left
\* uninitialised.
TypedClassDefaultCtor ==
  /\ pc = "idle"
  /\ stmts < MaxStmts
  /\ \E T \in PlainTypes, g \in IndeterminateNums,
        ok \in MallocOutcomes, ub \in NullStreamOutcomes :
       LET r == StreamNamed("Default", cxa_demangle(Mangle(T), ok),
                            NoPayload, ub)
       IN /\ stmt' = Statement("cell", T, <<>>, Wrap(T), "none")
          /\ tmp' = <<Val(Wrap(T), g)>>
          /\ out' = r.out
          /\ cout' = r.cout
          /\ pc' = IF r.crashed THEN "crashed" ELSE "done"
  /\ arr' = <<>>
  /\ mark' = Len(out)
  /\ stmts' = stmts + 1
  /\ UNCHANGED <<heapOk, ids>>

\* checkType(value): prints typeid(T).name().
checkType ==
  /\ pc = "idle"
  /\ stmts < MaxStmts
  /\ \E T \in ProbeTypes :
       /\ Available(T)
       /\ stmt' = Statement("checkType", T, <<>>, T, "none")
       /\ out' = Write(out, cout, Line("Type", Mangle(T), NoPayload))
  /\ pc' = "done"
  /\ tmp' = <<>>
  /\ arr' = <<>>
  /\ mark' = Len(out)
  /\ stmts' = stmts + 1
  /\ UNCHANGED <<cout, heapOk, ids>>

\* checkTypeDem(value): prints the demangled typeid(T).name().
checkTypeDem ==
  /\ pc = "idle"
  /\ stmts < MaxStmts
  /\ \E T \in ProbeTypes, ok \in MallocOutcomes, ub \in NullStreamOutcomes :
       LET r == StreamNamed("Demangled", cxa_demangle(Mangle(T), ok),
                            NoPayload, ub)
       IN /\ Available(T)
          /\ stmt' = Statement("checkTypeDem", T, <<>>, T, "none")
          /\ out' = r.out
          /\ cout' = r.cout
          /\ pc' = IF r.crashed THEN "crashed" ELSE "done"
  /\ tmp' = <<>>
  /\ arr' = <<>>
  /\ mark' = Len(out)
  /\ stmts' = stmts + 1
  /\ UNCHANGED <<heapOk, ids>>

DefaultHandler == <<"something else">>

\* Mutant of Handler: the chain tests convertibility and the template name
\* instead of std::is_same_v.
HandlerLoose(T) ==
  IF T \in IntegralTypes THEN Int_
  ELSE IF T \in FloatingTypes THEN Double_
  ELSE IF T[1] = "Id" THEN <<"Id", "float">>
  ELSE DefaultHandler

\* The `if constexpr` chain: the branch std::is_same_v selects for T.
Handler(T) ==
  IF T = Int_ THEN Int_
  ELSE IF T = Double_ THEN Double_
  ELSE IF T = <<"Id", "float">> THEN <<"Id", "float">>
  ELSE DefaultHandler

\* compileTimeTypeCheck(value): prints the line of the selected branch.
compileTimeTypeCheck ==
  /\ pc = "idle"
  /\ stmts < MaxStmts
  /\ \E T \in ProbeTypes :
       /\ Available(T)
       /\ stmt' = Statement("dispatch", T, <<>>, T, "none")
       /\ out' = Write(out, cout, Line("Handler", Handler(T), NoPayload))
  /\ pc' = "done"
  /\ tmp' = <<>>
  /\ arr' = <<>>
  /\ mark' = Len(out)
  /\ stmts' = stmts + 1
  /\ UNCHANGED <<cout, heapOk, ids>>

\* Id() { std::cout << "Hello from Id" << std::endl; } for a declaration
\* `Id<T> i;`.
IdCtor ==
  /\ pc = "idle"
  /\ \E T \in IdTypes :
       /\ T \notin ids
       /\ ids' = ids \cup {T}
  /\ out' = Write(out, cout, Line("Hello", <<>>, NoPayload))
  /\ UNCHANGED <<pc, stmt, tmp, arr, cout, heapOk, stmts, mark>>

ContainerForms == {"braced", "paren", "count", "default"}

\* The lines of `for (int j = 0; const auto &i : arr.getArr())`: the index
\* and the element, or the element's getData(), then the line of dashes.
RECURSIVE LoopLines(_, _, _, _)
LoopLines(o, c, a, j) ==
  IF j > Len(a) THEN Write(o, c, Line("Separator", <<>>, NoPayload))
  ELSE LoopLines(Write(o, c, Line("Element", <<>>,
                                  <<j - 1,
                                    IF IsCell(a[j].ty) THEN getData(a[j]).num
                                    ELSE a[j].num>>)),
                 c, a, j + 1)

\* main prints the container it has just declared and goes on.
PrintElements ==
  /\ pc = "done"
  /\ stmt.form \in ContainerForms
  /\ out' = LoopLines(out, cout, arr, 1)
  /\ pc' = "idle"
  /\ UNCHANGED <<stmt, tmp, arr, cout, heapOk, stmts, mark, ids>>

\* A statement that is no container declaration is complete; main goes on
\* to the next one.
EndStatement ==
  /\ pc = "done"
  /\ stmt.form \notin ContainerForms
  /\ pc' = "idle"
  /\ UNCHANGED <<stmt, tmp, arr, out, cout, heapOk, stmts, mark, ids>>

Next ==
  \/ Declare
  \/ TypedClassValueCtor
  \/ TypedClassCopyCtor
  \/ VectorFillPlain
  \/ DynamicArrayInitList
  \/ TypedClassDefaultCtor
  \/ checkType
  \/ checkTypeDem
  \/ compileTimeTypeCheck
  \/ IdCtor
  \/ PrintElements
  \/ EndStatement

Spec == Init /\ [][Next]_vars

SpecLowMem == InitLowMem /\ [][Next]_vars

(* ------------------------------ properties ----------------------------- *)
\* The lines the current statement has printed.
New == SubSeq(out, mark + 1, Len(out))

\* The trace log: the construction events among them.
IsConstruction(l) == l.kind \in {"Default", "ValueInit", "Copy"}
Trace == SelectSeq(New, IsConstruction)
Kinds(s) == [i \in 1..Len(s) |-> s[i].kind]

IsCopy(l) == l.kind = "Copy"
Copies == SelectSeq(New, IsCopy)

ParenDone == pc = "done" /\ stmt.form = "paren"

MixedDone ==
  /\ pc = "done"
  /\ stmt.form = "braced"
  /\ Len(stmt.args) = 2
  /\ IsIntegral(stmt.args[1].ty)
  /\ IsFloating(stmt.args[2].ty)

CellListDone ==
  /\ pc = "done"
  /\ stmt.form = "braced"
  /\ \A i \in 1..Len(stmt.args) : IsCell(stmt.args[i].ty)

ScalarListDone ==
  /\ pc = "done"
  /\ stmt.form = "braced"
  /\ SameType(stmt.args)
  /\ IsArith(stmt.args[1].ty)

\* C1 as stated: the parenthesized form (n, v) appends exactly 2n events,
\* ValueInit and Copy alternating, one pair per element.
C1_AsStated ==
  ParenDone =>
    /\ Len(Trace) = 2 * stmt.args[1].num
    /\ \A i \in 1..stmt.args[1].num :
         /\ Trace[2 * i - 1].kind = "ValueInit"
         /\ Trace[2 * i].kind = "Copy"

\* C1 (amended): the parenthesized form (n, v) appends exactly n + 1 events
\* to the trace log: one ValueInit event followed by n Copy events.
C1_FillEvents ==
  ParenDone =>
    Kinds(Trace) = <<"ValueInit">> \o [i \in 1..stmt.args[1].num |-> "Copy"]

C1_Witness == ParenDone /\ stmt.args[1].num >= 2 /\ Len(Trace) >= 3

\* C2 as stated: a braced list of one integer-like and one floating literal
\* appends exactly 2 events in total.
C2_AsStated == MixedDone => Len(Trace) = 2

\* C2 (amended): a braced list of one integer-like and one floating literal
\* appends exactly 4 events in total: two ValueInit events, one per list
\* element, followed by two Copy events.
C2_MixedEvents ==
  MixedDone => Kinds(Trace) = <<"ValueInit", "ValueInit", "Copy", "Copy">>

C2_Witness == MixedDone /\ stmt.args[1].num = 10 /\ Len(Trace) = 4

\* C3: a braced {c, v} with c integer-like and v floating takes the
\* initializer-list constructor, never the (count, value) one: the container
\* has exactly 2 elements of type TypedClass<floating type of v>, holding c
\* converted to that type and v, in that order.
C3_TieBreak ==
  MixedDone =>
    /\ stmt.strategy = "InitList"
    /\ Len(arr) = 2
    /\ stmt.elem = <<"TypedClass">> \o stmt.args[2].ty
    /\ \A i \in 1..Len(arr) : arr[i].ty = <<"TypedClass">> \o stmt.args[2].ty
    /\ getData(arr[1]).ty = stmt.args[2].ty
    /\ getData(arr[1]).num = stmt.args[1].num * Scale
    /\ getData(arr[2]) = stmt.args[2]

C3_Witness ==
  MixedDone /\ stmt.args[1].num = 10 /\ Len(arr) = 2 /\ arr[1].num = 10 * Scale

\* C4: the parenthesized form (n, v) with v of type T deduces the element
\* type TypedClass<T> and yields exactly n elements, each a TypedClass<T>
\* holding v.
C4_DeductionRule ==
  ParenDone =>
    /\ stmt.elem = <<"TypedClass">> \o stmt.args[2].ty
    /\ Len(arr) = stmt.args[1].num
    /\ \A i \in 1..Len(arr) :
         /\ arr[i].ty = <<"TypedClass">> \o stmt.args[2].ty
         /\ getData(arr[i]) = stmt.args[2]

C4_Witness ==
  ParenDone /\ stmt.args[1].num = 3 /\ Len(arr) = 3 /\ arr[3].num = 13

\* C5: a braced list of k TypedClass<T> objects yields k elements whose
\* held values are the listed objects' held values in order, and the element
\* type is the objects' own type, with no second TypedClass layer.
C5_ListOfCells ==
  CellListDone =>
    /\ Len(arr) = Len(stmt.args)
    /\ stmt.elem = stmt.args[1].ty
    /\ \A i \in 1..Len(arr) :
         /\ arr[i].ty = stmt.args[i].ty
         /\ getData(arr[i]) = getData(stmt.args[i])

C5_Witness ==
  /\ CellListDone
  /\ Len(arr) = 3
  /\ arr[1].num # arr[2].num
  /\ arr[2].num # arr[3].num

\* C6: constructing a container of a plain element type T with no argument,
\* with a count n, or from a braced list of k scalars creates no TypedClass
\* object and appends no construction event; the container has length 0,
\* length n with every element T's zero, and length k with the listed values
\* in order and the scalars' type as element type, respectively.
C6_PlainPaths ==
  /\ (pc = "done" /\ stmt.form = "default") =>
       /\ Trace = <<>> /\ tmp = <<>>
       /\ arr = <<>>
  /\ (pc = "done" /\ stmt.form = "count") =>
       /\ Trace = <<>> /\ tmp = <<>>
       /\ Len(arr) = stmt.args[1].num
       /\ \A i \in 1..Len(arr) : arr[i] = [ty |-> stmt.T, num |-> 0]
  /\ ScalarListDone =>
       /\ Trace = <<>> /\ tmp = <<>>
       /\ stmt.elem = stmt.args[1].ty
       /\ Len(arr) = Len(stmt.args)
       /\ \A i \in 1..Len(arr) : arr[i] = stmt.args[i]

C6_Witness ==
  /\ ScalarListDone
  /\ Len(arr) = 3
  /\ arr[1] # arr[2]
  /\ Len(New) = 1

\* C7 as stated: when the demangler returns no name, the printed line carries
\* the raw name instead, and the printing operation completes normally: no
\* line is left without a name, the process does not die, and std::cout stays
\* usable.
C7_AsStated ==
  /\ pc # "crashed"
  /\ cout = "good"
  /\ \A i \in 1..Len(out) :
       out[i].kind \in {"Default", "ValueInit", "Copy", "InitList", "Demangled"}
         => out[i].name # NULL

\* C8: a call of compileTimeTypeCheck with a value of type T runs exactly one
\* branch: the branch of T when T is int, double or Id<float>, and the final
\* else branch for every other type.
C8_Dispatch ==
  (pc = "done" /\ stmt.form = "dispatch") =>
    /\ Len(New) = 1
    /\ New[1].kind = "Handler"
    /\ New[1].name =
         IF stmt.T \in {<<"int">>, <<"double">>, <<"Id", "float">>}
         THEN stmt.T ELSE <<"something else">>

C8_Witness ==
  /\ pc = "done"
  /\ stmt.form = "dispatch"
  /\ stmt.T = <<"Id", "double">>
  /\ Len(New) = 1
  /\ New[1].name = <<"something else">>

\* C9 as stated: a default-constructed TypedClass<T> holds T's default value
\* and emits exactly one Default event with the type's display name and no
\* payload.
C9_AsStated ==
  (pc = "done" /\ stmt.form = "cell") =>
    /\ getData(tmp[1]) = [ty |-> stmt.T, num |-> 0]
    /\ Len(Trace) = 1
    /\ Trace[1] = [kind |-> "Default", name |-> stmt.T, payload |-> <<>>]

\* C10: populating a container from a braced list of k TypedClass objects
\* appends exactly k Copy events, the i-th carrying the held value of the
\* i-th listed object, and every Copy event comes after the construction
\* events of all k listed objects.
C10_ListCopies ==
  (pc = "done" /\ stmt.strategy = "InitList" /\ IsCell(stmt.elem)) =>
    /\ Len(Copies) = Len(stmt.args)
    /\ Len(tmp) = Len(stmt.args)
    /\ \A i \in 1..Len(Copies) : Copies[i].payload = <<tmp[i].num>>
    /\ \A i \in 1..Len(stmt.args) : New[i].kind = "ValueInit"
    /\ \A i \in 1..Len(New) :
         New[i].kind = "Copy" => i > Len(stmt.args)

C10_Witness ==
  /\ CellListDone
  /\ Len(Copies) = 3
  /\ Copies[1].payload # Copies[2].payload
  /\ Copies[2].payload # Copies[3].payload

====
